---- MODULE Spec2Model ----
(***************************************************************************)
(* Model of DiscordRecapBot: the event router RecapBot (src/bot.py) and    *)
(* the persistence layer DataHandler (src/data_handler.py).                *)
(*                                                                         *)
(* The file system below the data root is modelled as a set of guild       *)
(* directories and a map from existing file paths <<guild_id, filename>>   *)
(* to the sequence of lines the file holds.  A CSV line is the tuple of    *)
(* its comma-separated fields in the order the f-string writes them; a     *)
(* journal line is the JSON object json.dump writes.                       *)
(***************************************************************************)
EXTENDS Integers, Sequences, FiniteSets, TLC

\* ---------------------------------------------------------------- bounds
MaxHandled == 2
\* answers the operator may type at the confirmation prompt of main
MaxPrompts == 3
\* the os.mkdir / open calls of one handler run that may be the one to fail
\* (a handler makes at most five in the bootstrap and three appends)
MaxFuel == 7
\* notifications that appended a record, under a failing file system
MaxHandledIO == 1
\* notifications dispatched to the event loop
MaxDelivered == 2

\* ------------------------------------------------------ the gateway's data
None == 0
Guilds == {1, 2}
Members == {1, 2}
Channels == {1, 2}
\* member 1 is in both guilds, member 2 in guild 1
Keys == {<<1, 1>>, <<2, 1>>, <<1, 2>>}
MemberName(m) == IF m = 1 THEN "ann" ELSE "bob"
\* the channel, its category and the member of the guild notifications
MetaChannels == {1}
MetaCategories == {1}
MetaMembers == {1}

GuildNames == {"g1", "g2"}
ChannelNames == {"A", "B"}
Categories == {None, 1}

GuildName(g) == IF g = 1 THEN "g1" ELSE "g2"
\* A channel of a notification is a discord VoiceChannel object: 1 and 2 are
\* the channels A and B, Renamed is channel A after it was renamed (the same
\* id, another name).  Two channel objects are equal when their ids are.
Renamed == 3
ChannelId(c) == IF c = Renamed THEN 1 ELSE c
ChannelName(c) == IF c = 1 THEN "A" ELSE IF c = 2 THEN "B" ELSE "A2"

\* ------------------------------------------------------------ bot.py enums
JOIN == "join"
LEAVE == "leave"
COMPLETE == "complete"
CORRUPTED == "corrupted"

\* --------------------------------------------------- data_handler.py names
CHANNEL_ADD == "channel_add"
CHANNEL_REMOVE == "channel_remove"
CHANNEL_RENAME == "channel_rename"
MEMBER_JOIN == "member_join"
MEMBER_REMOVE == "member_remove"
GUILD_RENAME == "guild_rename"
GUILD_JOIN_BOT == "guild_join_bot"
GuildEvent ==
  {CHANNEL_ADD, CHANNEL_REMOVE, CHANNEL_RENAME, MEMBER_JOIN, MEMBER_REMOVE,
   GUILD_RENAME, GUILD_JOIN_BOT}

EVENT_LOG_HEADER ==
  <<"member_id", "member_name", "timestamp", "guild_id", "guild_name",
    "channel_id", "channel_name", "event_type">>
SESSION_LOG_HEADER ==
  <<"member_id", "member_name", "start_time", "duration", "guild_id",
    "guild_name", "channel_id", "channel_name", "session_type">>
SESSION_LOG_FILENAME == "session_log.csv"
EVENT_LOG_FILENAME == "event_log.csv"
GUILD_EVENTS_FILENAME == "guild_events.jsonl"
GUILD_METADATA_SNAPSHOT_FILENAME == "guild_snapshot.json"
json_schema_version == 1

FileNames ==
  {EVENT_LOG_FILENAME, SESSION_LOG_FILENAME, GUILD_EVENTS_FILENAME,
   GUILD_METADATA_SNAPSHOT_FILENAME}

VARIABLES
  now,                            \* the value time.time() returns
  guilds,                         \* discord.Client.guilds
  currently_tracked_connections,  \* RecapBot: dict (member_id, guild_id) -> connection
  initialized_guilds_ids,         \* DataHandler: set of guild ids
  dirs,                           \* guild directories that exist under DATA_PATH
  files,                          \* existing files: <<guild_id, filename>> -> lines
  blind_append,                   \* history: a line was appended for a guild whose
                                  \* file set did not exist at that moment
  handled,                        \* history: notifications that appended a record
  last_transition,                \* history: per key, the last join/leave/switch
                                  \* processed by the running process
  main,                           \* the frame of main(): where it stands, its
                                  \* locals and what it has done
  loop                            \* the event loop: the handler tasks created
                                  \* for the dispatched notifications

vars ==
  <<now, guilds, currently_tracked_connections, initialized_guilds_ids, dirs,
    files, blind_append, handled, last_transition, main, loop>>

\* args.mode when -m is not given
NoMode == "None"

\* main() has constructed the client and is inside client.run(token)
MainRunning ==
  [pc |-> "running", mode |-> "dev", auto_mode |-> TRUE, answer |-> "",
   asked |-> << >>, dotenv |-> TRUE, client |-> TRUE, exit |-> << >>]

\* no os.mkdir / open call of the handler raises
NoFault == -1

NoTransition == [kind |-> "none", at |-> 0, before |-> None, after |-> None]

\* ------------------------------------------------------------ program state
\* The state the methods below transform: the bot's dict, the data handler's
\* memo set and the file system.
\* raised: an exception is propagating, the statements that follow are skipped.
\* blind: a line was appended while the guild's file set did not exist.
\* fuel: the number of os.mkdir / open calls that succeed before one raises
\* OSError (NoFault: none raises); partial: the open(path, 'w') that raises has
\* created the file, empty, before it raises, and the append that raises has
\* written a part of its line.
\* trace: the effects of the running handler, in program order.
State(conns, ids, d, f, blind) ==
  [conns |-> conns, ids |-> ids, dirs |-> d, files |-> f, raised |-> FALSE,
   blind |-> blind, fuel |-> NoFault, partial |-> FALSE, trace |-> << >>]

Current ==
  State(currently_tracked_connections, initialized_guilds_ids, dirs, files,
        blind_append)

\* f'{value}' of a number
Str(n) == ToString(n)

\* os.path.exists(os.path.join(guild_dir, name))
PathExists(st, g, name) == <<g, name>> \in DOMAIN st.files

\* the next os.mkdir / open call raises OSError
Failing(st) == st.fuel = 0

\* one more os.mkdir / open call has succeeded
Spend(st) == IF st.fuel > 0 THEN [st EXCEPT !.fuel = @ - 1] ELSE st

Raise(st) == [st EXCEPT !.raised = TRUE]

Note(st, what) == [st EXCEPT !.trace = Append(@, what)]

\* os.mkdir(guild_dir), guarded by "if not os.path.exists(guild_dir)"
MkDir(st, g) ==
  IF Failing(st) THEN Raise(st)
  ELSE Note(Spend([st EXCEPT !.dirs = @ \cup {g}]), "mkdir")

\* the file <<g, name>> holds lines, every other file is as it was
WithFile(f, g, name, lines) ==
  [p \in DOMAIN f \cup {<<g, name>>} |-> IF p = <<g, name>> THEN lines ELSE f[p]]

\* with open(path, 'w') as file: file.write(text)
OpenWrite(st, g, name, lines) ==
  IF Failing(st)
  THEN (IF st.partial
        THEN Raise([st EXCEPT !.files = WithFile(st.files, g, name, << >>)])
        ELSE Raise(st))
  ELSE Note(Spend([st EXCEPT !.files = WithFile(st.files, g, name, lines)]), "create")

\* the directory of guild g and its four files exist
FileSetExists(st, g) ==
  g \in st.dirs /\ \A name \in FileNames : PathExists(st, g, name)

\* what a line appended to the file name is: the event_type of an
\* EventRecord, else the name of the file
Appended(name, line) == IF name = EVENT_LOG_FILENAME THEN line[8] ELSE name

\* What a write that raises can leave of a line in the file.  A CSV line is
\* one file.write of the formatted text: the text is cut before its last
\* field.  A journal line is json.dump(json_object, event_file) followed by
\* event_file.write('\n'): the object is there, its newline is not.
Torn(name, line) ==
  IF name = GUILD_EVENTS_FILENAME THEN [unterminated |-> TRUE] @@ line
  ELSE SubSeq(line, 1, Len(line) - 1)

\* the file <<g, name>> with line added at its end
FileAppend(f, g, name, line) ==
  WithFile(f, g, name,
           IF <<g, name>> \in DOMAIN f THEN Append(f[<<g, name>>], line)
           ELSE <<line>>)

\* the file is opened with 'w' where 'a' is meant
OpenAppend_truncating(st, g, name, line) ==
  IF Failing(st) THEN Raise(st)
  ELSE Note(Spend([st EXCEPT !.files = WithFile(st.files, g, name, <<line>>),
                             !.blind = @ \/ ~FileSetExists(st, g)]),
            Appended(name, line))

\* with open(path, 'a') as file: file.write(line); 'a' creates a missing file.
\* Nothing is done about a write that raises: when it raises, nothing of the
\* line has reached the file, or (partial) a part of it has.
OpenAppend(st, g, name, line) ==
  IF Failing(st)
  THEN (IF st.partial
        THEN Raise(Note([st EXCEPT !.files =
                           FileAppend(st.files, g, name, Torn(name, line))],
                        "torn"))
        ELSE Raise(st))
  ELSE Note(Spend([st EXCEPT !.files = FileAppend(st.files, g, name, line),
                             !.blind = @ \/ ~FileSetExists(st, g)]),
            Appended(name, line))

\* ------------------------------------------------------------- DataHandler
\* the file is written without the os.path.exists test
CreateIfMissing_always(st, g, name, lines) ==
  IF st.raised THEN st ELSE OpenWrite(st, g, name, lines)

\* if not os.path.exists(file): with open(file, 'w') ...
CreateIfMissing(st, g, name, lines) ==
  IF st.raised THEN st
  ELSE IF PathExists(st, g, name) THEN Note(st, "exists")
  ELSE OpenWrite(Note(st, "exists"), g, name, lines)

\* the memo set is not consulted
ensure_guild_files_exist_unmemoized(st, g) ==
  IF st.raised
  THEN st
  ELSE LET s0 == IF g \in st.dirs THEN Note(st, "exists")
                 ELSE MkDir(Note(st, "exists"), g)
           s1 == CreateIfMissing(s0, g, EVENT_LOG_FILENAME, <<EVENT_LOG_HEADER>>)
           s2 == CreateIfMissing(s1, g, SESSION_LOG_FILENAME, <<SESSION_LOG_HEADER>>)
           s3 == CreateIfMissing(s2, g, GUILD_EVENTS_FILENAME, <<>>)
           s4 == CreateIfMissing(s3, g, GUILD_METADATA_SNAPSHOT_FILENAME, <<>>)
       IN  IF s4.raised THEN s4 ELSE [s4 EXCEPT !.ids = @ \cup {g}]

\* the guild id is memoized before the files are created
ensure_guild_files_exist_memo_first(st, g) ==
  IF st.raised \/ g \in st.ids
  THEN st
  ELSE LET m0 == [st EXCEPT !.ids = @ \cup {g}]
           s0 == IF g \in st.dirs THEN Note(m0, "exists")
                 ELSE MkDir(Note(m0, "exists"), g)
           s1 == CreateIfMissing(s0, g, EVENT_LOG_FILENAME, <<EVENT_LOG_HEADER>>)
           s2 == CreateIfMissing(s1, g, SESSION_LOG_FILENAME, <<SESSION_LOG_HEADER>>)
           s3 == CreateIfMissing(s2, g, GUILD_EVENTS_FILENAME, <<>>)
       IN  CreateIfMissing(s3, g, GUILD_METADATA_SNAPSHOT_FILENAME, <<>>)

ensure_guild_files_exist(st, g) ==
  IF st.raised \/ g \in st.ids
  THEN st
  ELSE LET s0 == IF g \in st.dirs THEN Note(st, "exists")
                 ELSE MkDir(Note(st, "exists"), g)
           s1 == CreateIfMissing(s0, g, EVENT_LOG_FILENAME, <<EVENT_LOG_HEADER>>)
           s2 == CreateIfMissing(s1, g, SESSION_LOG_FILENAME, <<SESSION_LOG_HEADER>>)
           s3 == CreateIfMissing(s2, g, GUILD_EVENTS_FILENAME, <<>>)
           s4 == CreateIfMissing(s3, g, GUILD_METADATA_SNAPSHOT_FILENAME, <<>>)
       IN  IF s4.raised THEN s4 ELSE [s4 EXCEPT !.ids = @ \cup {g}]

\* the append is made without the bootstrap call
log_event_no_ensure(st, member_id, member_name, timestamp, guild_id, guild_name, channel_id, channel_name, event_type) ==
  LET event_csv_string ==
        <<Str(member_id), member_name, Str(timestamp), Str(guild_id), guild_name,
          Str(channel_id), channel_name, event_type>>
  IN  IF st.raised THEN st
      ELSE OpenAppend(st, guild_id, EVENT_LOG_FILENAME, event_csv_string)

log_event(st, member_id, member_name, timestamp, guild_id, guild_name, channel_id, channel_name, event_type) ==
  LET s0 == ensure_guild_files_exist(st, guild_id)
      event_csv_string ==
        <<Str(member_id), member_name, Str(timestamp), Str(guild_id), guild_name,
          Str(channel_id), channel_name, event_type>>
  IN  IF s0.raised THEN s0
      ELSE OpenAppend(s0, guild_id, EVENT_LOG_FILENAME, event_csv_string)

log_session(st, member_id, member_name, start_time, duration, guild_id, guild_name, channel_id, channel_name, session_type) ==
  LET s0 == ensure_guild_files_exist(st, guild_id)
      session_csv_string ==
        <<Str(member_id), member_name, Str(start_time), Str(duration),
          Str(guild_id), guild_name, Str(channel_id), channel_name, session_type>>
  IN  IF s0.raised THEN s0
      ELSE OpenAppend(s0, guild_id, SESSION_LOG_FILENAME, session_csv_string)

\* a line equal to the last line of the journal is not written again
append_guild_metadata_dedup(st, timestamp, guild_id, guild_event_type, payload) ==
  LET s0 == ensure_guild_files_exist(st, guild_id)
      json_object ==
        [schema_version |-> json_schema_version, timestamp |-> timestamp,
         guild_event |-> guild_event_type, guild_id |-> guild_id,
         payload |-> payload]
      journal == s0.files[<<guild_id, GUILD_EVENTS_FILENAME>>]
  IN  IF s0.raised THEN s0
      ELSE IF journal # << >> /\ journal[Len(journal)] = json_object THEN s0
      ELSE OpenAppend(s0, guild_id, GUILD_EVENTS_FILENAME, json_object)

append_guild_metadata(st, timestamp, guild_id, guild_event_type, payload) ==
  LET s0 == ensure_guild_files_exist(st, guild_id)
      json_object ==
        [schema_version |-> json_schema_version, timestamp |-> timestamp,
         guild_event |-> guild_event_type, guild_id |-> guild_id,
         payload |-> payload]
  IN  IF s0.raised THEN s0
      ELSE OpenAppend(s0, guild_id, GUILD_EVENTS_FILENAME, json_object)

log_guild_channel_add(st, timestamp, guild_id, channel_id, channel_name, channel_category_id, channel_type) ==
  append_guild_metadata(st, timestamp, guild_id, CHANNEL_ADD,
    [channel_id |-> channel_id, channel_name |-> channel_name,
     channel_category_id |-> channel_category_id, channel_type |-> channel_type])

log_guild_channel_remove(st, timestamp, guild_id, channel_id, channel_name, channel_category_id, channel_type) ==
  append_guild_metadata(st, timestamp, guild_id, CHANNEL_REMOVE,
    [channel_id |-> channel_id, channel_name |-> channel_name,
     channel_category_id |-> channel_category_id, channel_type |-> channel_type])

\* the payload of channel_add is reused for the rename
log_guild_channel_rename_flat(st, timestamp, guild_id, channel_id, channel_name_old, channel_name_new, channel_category_id, channel_type) ==
  append_guild_metadata(st, timestamp, guild_id, CHANNEL_RENAME,
    [channel_id |-> channel_id, channel_name |-> channel_name_new,
     channel_category_id |-> channel_category_id, channel_type |-> channel_type])

log_guild_channel_rename(st, timestamp, guild_id, channel_id, channel_name_old, channel_name_new, channel_category_id, channel_type) ==
  append_guild_metadata(st, timestamp, guild_id, CHANNEL_RENAME,
    [channel_id |-> channel_id, channel_name_old |-> channel_name_old,
     channel_name_new |-> channel_name_new,
     channel_category_id |-> channel_category_id, channel_type |-> channel_type])

log_guild_member_join(st, timestamp, guild_id, member_id, member_name) ==
  append_guild_metadata(st, timestamp, guild_id, MEMBER_JOIN,
    [member_id |-> member_id, member_name |-> member_name])

log_guild_member_remove(st, timestamp, guild_id, member_id, member_name) ==
  append_guild_metadata(st, timestamp, guild_id, MEMBER_REMOVE,
    [member_id |-> member_id, member_name |-> member_name])

log_guild_rename(st, timestamp, guild_id, guild_name_old, guild_name_new) ==
  append_guild_metadata(st, timestamp, guild_id, GUILD_RENAME,
    [guild_name_old |-> guild_name_old, guild_name_new |-> guild_name_new])

log_guild_bot_join(st, timestamp, guild_id, guild_name) ==
  append_guild_metadata(st, timestamp, guild_id, GUILD_JOIN_BOT,
    [guild_name |-> guild_name])

\* DataHandler has no method log_guild_channel_category_change: the attribute
\* lookup raises AttributeError before anything is written.
log_guild_channel_category_change(st) ==
  IF st.raised THEN st ELSE Raise(st)

\* ------------------------------------------------------------------ RecapBot
\* an entry that exists is kept (dict.setdefault)
handle_voice_join_keep(st, member_id, member_name, guild_id, guild_name, timestamp, channel_id, channel_name) ==
  IF st.raised THEN st
  ELSE LET connection ==
             [member_name |-> member_name, timestamp |-> timestamp,
              guild_name |-> guild_name, channel_name |-> channel_name,
              channel_id |-> channel_id]
           key == <<member_id, guild_id>>
       IN  Note([st EXCEPT !.conns =
                   [k \in DOMAIN st.conns \cup {key} |->
                      IF k \in DOMAIN st.conns THEN st.conns[k] ELSE connection]],
                "track")

handle_voice_join(st, member_id, member_name, guild_id, guild_name, timestamp, channel_id, channel_name) ==
  IF st.raised THEN st
  ELSE LET connection ==
             [member_name |-> member_name, timestamp |-> timestamp,
              guild_name |-> guild_name, channel_name |-> channel_name,
              channel_id |-> channel_id]
           key == <<member_id, guild_id>>
       IN  Note([st EXCEPT !.conns =
                   [k \in DOMAIN st.conns \cup {key} |->
                      IF k = key THEN connection ELSE st.conns[k]]],
                "track")

\* duration computed from the wrong operand
handle_voice_leave_duration(st, member_id, member_name, guild_id, guild_name, timestamp, channel_id, channel_name) ==
  IF st.raised THEN st
  ELSE LET key == <<member_id, guild_id>> IN
       IF key \in DOMAIN st.conns
       THEN LET tracked_connection == st.conns[key]
                popped ==
                  Note([st EXCEPT !.conns = [k \in DOMAIN st.conns \ {key} |-> st.conns[k]]],
                       "pop")
                start_time == tracked_connection.timestamp
                duration == timestamp
            IN  log_session(popped, member_id, tracked_connection.member_name,
                            start_time, duration, guild_id,
                            tracked_connection.guild_name,
                            tracked_connection.channel_id,
                            tracked_connection.channel_name, COMPLETE)
       ELSE log_session(st, member_id, member_name, -1, 0, guild_id, guild_name,
                        channel_id, channel_name, CORRUPTED)

\* the tracked entry is popped without the membership test
handle_voice_leave_unchecked(st, member_id, member_name, guild_id, guild_name, timestamp, channel_id, channel_name) ==
  IF st.raised THEN st
  ELSE LET key == <<member_id, guild_id>> IN
       IF key \in DOMAIN st.conns
       THEN LET tracked_connection == st.conns[key]
                popped ==
                  Note([st EXCEPT !.conns = [k \in DOMAIN st.conns \ {key} |-> st.conns[k]]],
                       "pop")
                start_time == tracked_connection.timestamp
                duration == timestamp - start_time
            IN  log_session(popped, member_id, tracked_connection.member_name,
                            start_time, duration, guild_id,
                            tracked_connection.guild_name,
                            tracked_connection.channel_id,
                            tracked_connection.channel_name, COMPLETE)
       ELSE [st EXCEPT !.raised = TRUE]

\* the complete record is built from the notification, not from the entry
handle_voice_leave_live(st, member_id, member_name, guild_id, guild_name, timestamp, channel_id, channel_name) ==
  IF st.raised THEN st
  ELSE LET key == <<member_id, guild_id>> IN
       IF key \in DOMAIN st.conns
       THEN LET tracked_connection == st.conns[key]
                popped ==
                  Note([st EXCEPT !.conns = [k \in DOMAIN st.conns \ {key} |-> st.conns[k]]],
                       "pop")
                start_time == tracked_connection.timestamp
                duration == timestamp - start_time
            IN  log_session(popped, member_id, member_name, start_time, duration,
                            guild_id, guild_name, channel_id, channel_name, COMPLETE)
       ELSE log_session(st, member_id, member_name, -1, 0, guild_id, guild_name,
                        channel_id, channel_name, CORRUPTED)

\* the tracker is keyed by the member id alone: the leave closes the member's
\* entries of every guild
handle_voice_leave_by_member(st, member_id, member_name, guild_id, guild_name, timestamp, channel_id, channel_name) ==
  IF st.raised THEN st
  ELSE LET key == <<member_id, guild_id>>
           others == {k \in DOMAIN st.conns : k[1] # member_id}
       IN
       IF key \in DOMAIN st.conns
       THEN LET tracked_connection == st.conns[key]
                popped == Note([st EXCEPT !.conns = [k \in others |-> st.conns[k]]], "pop")
                start_time == tracked_connection.timestamp
                duration == timestamp - start_time
            IN  log_session(popped, member_id, tracked_connection.member_name,
                            start_time, duration, guild_id,
                            tracked_connection.guild_name,
                            tracked_connection.channel_id,
                            tracked_connection.channel_name, COMPLETE)
       ELSE log_session([st EXCEPT !.conns = [k \in others |-> st.conns[k]]],
                        member_id, member_name, -1, 0, guild_id, guild_name,
                        channel_id, channel_name, CORRUPTED)

handle_voice_leave(st, member_id, member_name, guild_id, guild_name, timestamp, channel_id, channel_name) ==
  IF st.raised THEN st
  ELSE LET key == <<member_id, guild_id>> IN
       IF key \in DOMAIN st.conns
       THEN \* Session complete
            LET tracked_connection == st.conns[key]
                popped ==
                  Note([st EXCEPT !.conns = [k \in DOMAIN st.conns \ {key} |-> st.conns[k]]],
                       "pop")
                start_time == tracked_connection.timestamp
                duration == timestamp - start_time
            IN  log_session(popped, member_id, tracked_connection.member_name,
                            start_time, duration, guild_id,
                            tracked_connection.guild_name,
                            tracked_connection.channel_id,
                            tracked_connection.channel_name, COMPLETE)
       ELSE \* Session corrupted, leave event without join
            log_session(st, member_id, member_name, -1, 0, guild_id, guild_name,
                        channel_id, channel_name, CORRUPTED)

\* the tracker is updated first, the EventRecords are written after it
on_voice_state_update_track_first(st, member_id, member_name, guild_id, guild_name, timestamp, before, after) ==
  IF ChannelId(before) = ChannelId(after)
  THEN st
  ELSE IF before = None
  THEN LET s1 == handle_voice_join(st, member_id, member_name, guild_id, guild_name,
                                   timestamp, ChannelId(after), ChannelName(after))
       IN  log_event(s1, member_id, member_name, timestamp, guild_id,
                     guild_name, ChannelId(after), ChannelName(after), JOIN)
  ELSE IF after = None
  THEN LET s1 == handle_voice_leave(st, member_id, member_name, guild_id, guild_name,
                                    timestamp, ChannelId(before), ChannelName(before))
       IN  log_event(s1, member_id, member_name, timestamp, guild_id,
                     guild_name, ChannelId(before), ChannelName(before), LEAVE)
  ELSE LET s1 == handle_voice_leave(st, member_id, member_name, guild_id,
                                    guild_name, timestamp, ChannelId(before),
                                    ChannelName(before))
           s2 == handle_voice_join(s1, member_id, member_name, guild_id, guild_name,
                                   timestamp, ChannelId(after), ChannelName(after))
           s3 == log_event(s2, member_id, member_name, timestamp, guild_id,
                           guild_name, ChannelId(before), ChannelName(before), LEAVE)
       IN  log_event(s3, member_id, member_name, timestamp, guild_id,
                     guild_name, ChannelId(after), ChannelName(after), JOIN)

\* the switch opens the new connection before it closes the old one
on_voice_state_update_open_first(st, member_id, member_name, guild_id, guild_name, timestamp, before, after) ==
  IF ChannelId(before) = ChannelId(after)
  THEN st
  ELSE IF before = None
  THEN LET s1 == log_event(st, member_id, member_name, timestamp, guild_id,
                           guild_name, ChannelId(after), ChannelName(after), JOIN)
       IN  handle_voice_join(s1, member_id, member_name, guild_id, guild_name,
                             timestamp, ChannelId(after), ChannelName(after))
  ELSE IF after = None
  THEN LET s1 == log_event(st, member_id, member_name, timestamp, guild_id,
                           guild_name, ChannelId(before), ChannelName(before), LEAVE)
       IN  handle_voice_leave(s1, member_id, member_name, guild_id, guild_name,
                              timestamp, ChannelId(before), ChannelName(before))
  ELSE LET s1 == log_event(st, member_id, member_name, timestamp, guild_id,
                           guild_name, ChannelId(before), ChannelName(before), LEAVE)
           s2 == log_event(s1, member_id, member_name, timestamp, guild_id,
                           guild_name, ChannelId(after), ChannelName(after), JOIN)
           s3 == handle_voice_join(s2, member_id, member_name, guild_id,
                                   guild_name, timestamp, ChannelId(after),
                                   ChannelName(after))
       IN  handle_voice_leave(s3, member_id, member_name, guild_id, guild_name,
                              timestamp, ChannelId(before), ChannelName(before))

\* the test before.channel == after.channel is left out
on_voice_state_update_unguarded(st, member_id, member_name, guild_id, guild_name, timestamp, before, after) ==
  IF before = None
  THEN LET s1 == log_event(st, member_id, member_name, timestamp, guild_id,
                           guild_name, ChannelId(after), ChannelName(after), JOIN)
       IN  handle_voice_join(s1, member_id, member_name, guild_id, guild_name,
                             timestamp, ChannelId(after), ChannelName(after))
  ELSE IF after = None
  THEN LET s1 == log_event(st, member_id, member_name, timestamp, guild_id,
                           guild_name, ChannelId(before), ChannelName(before), LEAVE)
       IN  handle_voice_leave(s1, member_id, member_name, guild_id, guild_name,
                              timestamp, ChannelId(before), ChannelName(before))
  ELSE LET s1 == log_event(st, member_id, member_name, timestamp, guild_id,
                           guild_name, ChannelId(before), ChannelName(before), LEAVE)
           s2 == log_event(s1, member_id, member_name, timestamp, guild_id,
                           guild_name, ChannelId(after), ChannelName(after), JOIN)
           s3 == handle_voice_leave(s2, member_id, member_name, guild_id,
                                    guild_name, timestamp, ChannelId(before),
                                    ChannelName(before))
       IN  handle_voice_join(s3, member_id, member_name, guild_id, guild_name,
                             timestamp, ChannelId(after), ChannelName(after))

on_voice_state_update(st, member_id, member_name, guild_id, guild_name, timestamp, before, after) ==
  IF ChannelId(before) = ChannelId(after)
  THEN st
  ELSE IF before = None
  THEN LET s1 == log_event(st, member_id, member_name, timestamp, guild_id,
                           guild_name, ChannelId(after), ChannelName(after), JOIN)
       IN  handle_voice_join(s1, member_id, member_name, guild_id, guild_name,
                             timestamp, ChannelId(after), ChannelName(after))
  ELSE IF after = None
  THEN LET s1 == log_event(st, member_id, member_name, timestamp, guild_id,
                           guild_name, ChannelId(before), ChannelName(before), LEAVE)
       IN  handle_voice_leave(s1, member_id, member_name, guild_id, guild_name,
                              timestamp, ChannelId(before), ChannelName(before))
  ELSE LET s1 == log_event(st, member_id, member_name, timestamp, guild_id,
                           guild_name, ChannelId(before), ChannelName(before), LEAVE)
           s2 == log_event(s1, member_id, member_name, timestamp, guild_id,
                           guild_name, ChannelId(after), ChannelName(after), JOIN)
           s3 == handle_voice_leave(s2, member_id, member_name, guild_id,
                                    guild_name, timestamp, ChannelId(before),
                                    ChannelName(before))
       IN  handle_voice_join(s3, member_id, member_name, guild_id, guild_name,
                             timestamp, ChannelId(after), ChannelName(after))

\* the loop stops after the first guild
EnsureAll_first(st, gs) ==
  IF gs = {} THEN st
  ELSE ensure_guild_files_exist(st, CHOOSE x \in gs : \A y \in gs : x <= y)

RECURSIVE EnsureAll(_, _)
\* for guild in self.guilds: self.data_handler.ensure_guild_files_exist(guild.id)
EnsureAll(st, gs) ==
  IF gs = {} THEN st
  ELSE LET g == CHOOSE x \in gs : \A y \in gs : x <= y
       IN  EnsureAll(ensure_guild_files_exist(st, g), gs \ {g})

on_ready(st, gs) == EnsureAll(st, gs)

on_guild_join(st, timestamp, guild_id, guild_name) ==
  log_guild_bot_join(ensure_guild_files_exist(st, guild_id), timestamp,
                     guild_id, guild_name)

on_guild_update(st, timestamp, guild_id, name_before, name_after) ==
  IF name_before # name_after
  THEN log_guild_rename(st, timestamp, guild_id, name_before, name_after)
  ELSE st

on_guild_channel_create(st, timestamp, guild_id, channel_id, channel_name, category_id, channel_type) ==
  log_guild_channel_add(st, timestamp, guild_id, channel_id, channel_name,
                        category_id, channel_type)

on_guild_channel_delete(st, timestamp, guild_id, channel_id, channel_name, category_id, channel_type) ==
  log_guild_channel_remove(st, timestamp, guild_id, channel_id, channel_name,
                           category_id, channel_type)

on_guild_channel_update(st, timestamp, guild_id, channel_id, name_before, name_after, category_before_id, category_after_id, channel_type) ==
  LET s1 == IF name_before # name_after
            THEN log_guild_channel_rename(st, timestamp, guild_id, channel_id,
                                          name_before, name_after,
                                          category_before_id, channel_type)
            ELSE st
  IN  IF category_before_id # category_after_id
      THEN log_guild_channel_category_change(s1)
      ELSE s1

on_member_join(st, timestamp, guild_id, member_id, member_name) ==
  log_guild_member_join(st, timestamp, guild_id, member_id, member_name)

on_member_remove(st, timestamp, guild_id, member_id, member_name) ==
  log_guild_member_remove(st, timestamp, guild_id, member_id, member_name)

\* ------------------------------------------------------------------ actions
\* the lines of a file, none if the file does not exist
Content(f, g, name) == IF <<g, name>> \in DOMAIN f THEN f[<<g, name>>] ELSE << >>

\* the records of a CSV file: its lines after the header line (all its
\* lines, when the file was left without a header)
RecordsOf(f, g, name) ==
  LET lines == Content(f, g, name)
      header == IF name = EVENT_LOG_FILENAME THEN EVENT_LOG_HEADER
                ELSE SESSION_LOG_HEADER
  IN  IF lines # << >> /\ lines[1] = header THEN Tail(lines) ELSE lines

\* number of records in the files of guild g
GuildRecords(f, g) ==
  Len(RecordsOf(f, g, EVENT_LOG_FILENAME))
  + Len(RecordsOf(f, g, SESSION_LOG_FILENAME))
  + Len(Content(f, g, GUILD_EVENTS_FILENAME))

RECURSIVE RecordsIn(_, _)
RecordsIn(f, gs) ==
  IF gs = {} THEN 0
  ELSE LET g == CHOOSE x \in gs : TRUE
       IN  GuildRecords(f, g) + RecordsIn(f, gs \ {g})

\* number of records in all files
Records(f) == RecordsIn(f, Guilds)

\* The handler read time.time() = t, ran to its end (or to its exception) and
\* left state s.  handled counts the notifications that appended a record; now
\* is the latest clock value that reached a file.
Effect(result, t) ==
  \E s \in {result} :
  /\ handled' = IF Records(s.files) > Records(files) THEN handled + 1 ELSE handled
  /\ handled' <= MaxHandled
  /\ now' = IF Records(s.files) > Records(files) THEN t ELSE now
  /\ currently_tracked_connections' = s.conns
  /\ initialized_guilds_ids' = s.ids
  /\ dirs' = s.dirs
  /\ files' = s.files
  /\ blind_append' = s.blind
  /\ UNCHANGED main

\* the handler ran as soon as its notification was dispatched
Commit(result, t) == Effect(result, t) /\ UNCHANGED loop

\* the memory of the process and the file system, as st holds them
Outcome(st) == [conns |-> st.conns, ids |-> st.ids, dirs |-> st.dirs, files |-> st.files]

\* no notification has been dispatched to a handler task
LoopIdle ==
  [tasks |-> << >>, overlap |-> FALSE,
   serial |-> Outcome(State(<< >>, {}, {}, << >>, FALSE))]

Init ==
  /\ now = 0
  /\ guilds \in {{1}, Guilds}
  /\ currently_tracked_connections = << >>
  /\ initialized_guilds_ids = {}
  /\ dirs = {}
  /\ files = << >>
  /\ blind_append = FALSE
  /\ handled = 0
  /\ last_transition = [k \in Keys |-> NoTransition]
  /\ main = MainRunning
  /\ loop = LoopIdle

\* The process is stopped and started again: RecapBot.__init__ and
\* DataHandler.__init__ run, the files stay.
Restart ==
  /\ currently_tracked_connections' = << >>
  /\ initialized_guilds_ids' = {}
  /\ last_transition' = [k \in Keys |-> NoTransition]
  /\ UNCHANGED <<now, guilds, dirs, files, blind_append, handled, main, loop>>

OnReady ==
  /\ Commit(on_ready(Current, guilds), now)
  /\ UNCHANGED <<guilds, last_transition>>

OnGuildJoin(g, t) ==
  /\ g \notin guilds
  /\ guilds' = guilds \cup {g}
  /\ Commit(on_guild_join(Current, t, g, GuildName(g)), t)
  /\ UNCHANGED last_transition

OnGuildUpdate(g, t, name_after) ==
  /\ g \in guilds
  /\ Commit(on_guild_update(Current, t, g, GuildName(g), name_after), t)
  /\ UNCHANGED <<guilds, last_transition>>

OnGuildChannelCreate(g, t, c, cat) ==
  /\ g \in guilds
  /\ Commit(on_guild_channel_create(Current, t, g, c, ChannelName(c), cat, "voice"), t)
  /\ UNCHANGED <<guilds, last_transition>>

OnGuildChannelDelete(g, t, c, cat) ==
  /\ g \in guilds
  /\ Commit(on_guild_channel_delete(Current, t, g, c, ChannelName(c), cat, "voice"), t)
  /\ UNCHANGED <<guilds, last_transition>>

OnGuildChannelUpdate(g, t, c, name_after, cat_before, cat_after) ==
  /\ g \in guilds
  /\ Commit(on_guild_channel_update(Current, t, g, c, ChannelName(c), name_after,
                                    cat_before, cat_after, "voice"), t)
  /\ UNCHANGED <<guilds, last_transition>>

OnMemberJoin(g, t, m, name) ==
  /\ g \in guilds
  /\ Commit(on_member_join(Current, t, g, m, name), t)
  /\ UNCHANGED <<guilds, last_transition>>

OnMemberRemove(g, t, m, name) ==
  /\ g \in guilds
  /\ Commit(on_member_remove(Current, t, g, m, name), t)
  /\ UNCHANGED <<guilds, last_transition>>

TransitionKind(before, after) ==
  IF before = None THEN "join" ELSE IF after = None THEN "leave" ELSE "switch"

OnVoiceStateUpdate(m, name, g, t, before, after) ==
  /\ g \in guilds
  /\ Commit(on_voice_state_update(Current, m, name, g, GuildName(g), t, before, after), t)
  /\ last_transition' =
       IF before = after THEN last_transition
       ELSE [last_transition EXCEPT ![<<m, g>>] =
               [kind |-> TransitionKind(before, after), at |-> t,
                before |-> before, after |-> after]]
  /\ UNCHANGED guilds

\* time.time() does not run backwards between two handlers
Clock == {now, now + 1}

Next ==
  \/ Restart
  \/ OnReady
  \/ \E g \in Guilds, t \in Clock : OnGuildJoin(g, t)
  \/ \E g \in Guilds, t \in Clock, n \in GuildNames : OnGuildUpdate(g, t, n)
  \/ \E g \in Guilds, t \in Clock, c \in MetaChannels, cat \in MetaCategories :
       OnGuildChannelCreate(g, t, c, cat)
  \/ \E g \in Guilds, t \in Clock, c \in MetaChannels, cat \in MetaCategories :
       OnGuildChannelDelete(g, t, c, cat)
  \/ \E g \in Guilds, t \in Clock, c \in MetaChannels, n \in ChannelNames,
        c1 \in MetaCategories, c2 \in Categories :
       OnGuildChannelUpdate(g, t, c, n, c1, c2)
  \/ \E g \in Guilds, t \in Clock, m \in MetaMembers : OnMemberJoin(g, t, m, MemberName(m))
  \/ \E g \in Guilds, t \in Clock, m \in MetaMembers : OnMemberRemove(g, t, m, MemberName(m))
  \/ \E k \in Keys, t \in Clock, b, a \in Channels \cup {None} :
       OnVoiceStateUpdate(k[1], MemberName(k[1]), k[2], t, b, a)

Spec == Init /\ [][Next]_vars

\* ---------------------------------------------------------------- main()
\* what the operator may type at the prompt
Answers == {"y", "n", "Y", "yes", ""}

\* the values of -m / --mode: the two choices, or the option is not given
ModeArgs == {"dev", "prod", NoMode}

\* main() is entered: nothing parsed, nothing asked, nothing loaded
MainEntry ==
  [pc |-> "parse_args", mode |-> NoMode, auto_mode |-> FALSE, answer |-> "",
   asked |-> << >>, dotenv |-> FALSE, client |-> FALSE, exit |-> << >>]

\* args = parser.parse_args() ... the branch on mode (init_logs writes no state
\* of the bot)
parse_args(m, arg) ==
  LET mode == IF arg = NoMode THEN "dev" ELSE arg
  IN  [m EXCEPT !.mode = mode, !.auto_mode = (arg = NoMode),
                !.pc = IF mode = "dev" THEN "load_dotenv" ELSE "input"]

\* the while loop is left out: every answer goes on to the if
input_answer_once(m, a) ==
  [m EXCEPT !.answer = a, !.asked = Append(@, a), !.pc = "if_answer"]

\* answer = input(...), then the test of while answer != 'y' and answer != 'n'
input_answer(m, a) ==
  [m EXCEPT !.answer = a, !.asked = Append(@, a),
            !.pc = IF a # "y" /\ a # "n" THEN "input" ELSE "if_answer"]

\* if answer == 'n': exit(0) / elif answer == 'y': go on
if_answer(m) ==
  IF m.answer = "n"
  THEN [m EXCEPT !.pc = "exited", !.exit = <<0>>]
  ELSE [m EXCEPT !.pc = "load_dotenv"]

load_dotenv(m) == [m EXCEPT !.dotenv = TRUE, !.pc = "construct"]

\* client = RecapBot(intents=intents, mode=mode, data_path=data_path)
construct(m) == [m EXCEPT !.client = TRUE, !.pc = "run"]

\* client.run(token)
run(m) == [m EXCEPT !.pc = "running"]

InitMain ==
  /\ now = 0
  /\ guilds = {}
  /\ currently_tracked_connections = << >>
  /\ initialized_guilds_ids = {}
  /\ dirs = {}
  /\ files = << >>
  /\ blind_append = FALSE
  /\ handled = 0
  /\ last_transition = [k \in Keys |-> NoTransition]
  /\ main = MainEntry
  /\ loop = LoopIdle

\* the client does not exist or has not logged in: no handler runs
BotIdle ==
  UNCHANGED <<now, guilds, currently_tracked_connections, initialized_guilds_ids,
              dirs, files, blind_append, handled, last_transition, loop>>

MainParseArgs(arg) ==
  /\ main.pc = "parse_args"
  /\ main' = parse_args(main, arg)
  /\ BotIdle

MainInput(a) ==
  /\ main.pc = "input"
  /\ Len(main.asked) < MaxPrompts
  /\ main' = input_answer(main, a)
  /\ BotIdle

MainIfAnswer ==
  /\ main.pc = "if_answer"
  /\ main' = if_answer(main)
  /\ BotIdle

MainLoadDotenv ==
  /\ main.pc = "load_dotenv"
  /\ main' = load_dotenv(main)
  /\ BotIdle

MainConstruct ==
  /\ main.pc = "construct"
  /\ main' = construct(main)
  /\ BotIdle

MainRun ==
  /\ main.pc = "run"
  /\ main' = run(main)
  /\ BotIdle

NextMain ==
  \/ \E arg \in ModeArgs : MainParseArgs(arg)
  \/ \E a \in Answers : MainInput(a)
  \/ MainIfAnswer
  \/ MainLoadDotenv
  \/ MainConstruct
  \/ MainRun

SpecMain == InitMain /\ [][NextMain]_vars

\* ------------------------------------------------------ failing file system
\* what the file system does to one handler run: every call succeeds, or the
\* call after fuel successful ones raises OSError
Faults ==
  {[fuel |-> NoFault, partial |-> FALSE]}
  \cup {[fuel |-> n, partial |-> p] : n \in 0..MaxFuel, p \in BOOLEAN}

\* the state st as a handler finds it when the file system behaves as fault
Faulty(st, fault) ==
  [st EXCEPT !.fuel = fault.fuel, !.partial = fault.partial, !.raised = FALSE,
             !.trace = << >>]

InitIO ==
  /\ now = 0
  /\ guilds = {1}
  /\ currently_tracked_connections = << >>
  /\ initialized_guilds_ids = {}
  /\ dirs = {}
  /\ files = << >>
  /\ blind_append = FALSE
  /\ handled = 0
  /\ last_transition = [k \in Keys |-> NoTransition]
  /\ main = MainRunning
  /\ loop = LoopIdle

IOReady(fault) ==
  /\ Commit(on_ready(Faulty(Current, fault), guilds), now)
  /\ handled' <= MaxHandledIO
  /\ UNCHANGED <<guilds, last_transition>>

IOMemberJoin(g, t, m, name, fault) ==
  /\ g \in guilds
  /\ Commit(on_member_join(Faulty(Current, fault), t, g, m, name), t)
  /\ handled' <= MaxHandledIO
  /\ UNCHANGED <<guilds, last_transition>>

\* last_transition keeps the transitions whose handler ran to its end
IOVoiceStateUpdate(m, name, g, t, before, after, fault) ==
  /\ g \in guilds
  /\ \E r \in {on_voice_state_update(Faulty(Current, fault), m, name, g,
                                       GuildName(g), t, before, after)} :
       /\ Commit(r, t)
       /\ handled' <= MaxHandledIO
       /\ last_transition' =
            IF before = after \/ r.raised THEN last_transition
            ELSE [last_transition EXCEPT ![<<m, g>>] =
                    [kind |-> TransitionKind(before, after), at |-> t,
                     before |-> before, after |-> after]]
  /\ UNCHANGED guilds

NextIO ==
  \/ Restart
  \/ \E fault \in Faults : IOReady(fault)
  \/ \E g \in Guilds, t \in Clock, m \in MetaMembers, fault \in Faults :
       IOMemberJoin(g, t, m, MemberName(m), fault)
  \/ \E k \in Keys, t \in Clock, b, a \in Channels \cup {None}, fault \in Faults :
       IOVoiceStateUpdate(k[1], MemberName(k[1]), k[2], t, b, a, fault)

SpecIO == InitIO /\ [][NextIO]_vars

\* ----------------------------------------------------------- the event loop
\* The handler of a notification is a coroutine, run as a task of the event
\* loop.  The loop starts the tasks in the order of their dispatch; a task
\* runs from where it stands to its next await expression, or to its end, and
\* no other task runs in between; a task that waits may be resumed at any
\* later moment.

\* an await stands between the close of the old session of a switch and the
\* open of the new one
suspension_points_after_close == {"close"}

\* the await expressions in the bodies of on_voice_state_update,
\* handle_voice_join and handle_voice_leave: there is none
suspension_points == {}

IsSwitch(before, after) ==
  before # None /\ after # None /\ ChannelId(before) # ChannelId(after)

\* the switch branch, from its first statement to the close of the old session
switch_until_close(st, member_id, member_name, guild_id, guild_name, timestamp, before, after) ==
  LET s1 == log_event(st, member_id, member_name, timestamp, guild_id,
                      guild_name, ChannelId(before), ChannelName(before), LEAVE)
      s2 == log_event(s1, member_id, member_name, timestamp, guild_id,
                      guild_name, ChannelId(after), ChannelName(after), JOIN)
  IN  handle_voice_leave(s2, member_id, member_name, guild_id, guild_name,
                         timestamp, ChannelId(before), ChannelName(before))

\* the switch branch, from the open of the new session to its end
switch_from_open(st, member_id, member_name, guild_id, guild_name, timestamp, before, after) ==
  handle_voice_join(st, member_id, member_name, guild_id, guild_name,
                    timestamp, ChannelId(after), ChannelName(after))

\* The task runs on st from where it stands to its next await expression or
\* to its end: the state it leaves, and where it stands then.
run_task(st, task, timestamp) ==
  LET m == task.key[1]
      g == task.key[2]
  IN  IF "close" \in suspension_points /\ IsSwitch(task.before, task.after)
      THEN IF task.pc = "pending"
           THEN LET r == switch_until_close(st, m, MemberName(m), g, GuildName(g),
                                            timestamp, task.before, task.after)
                IN  [st |-> r, pc |-> IF r.raised THEN "done" ELSE "suspended"]
           ELSE [st |-> switch_from_open(st, m, MemberName(m), g, GuildName(g),
                                         timestamp, task.before, task.after),
                 pc |-> "done"]
      ELSE [st |-> on_voice_state_update(st, m, MemberName(m), g, GuildName(g),
                                         timestamp, task.before, task.after),
            pc |-> "done"]

\* the handlers of the tasks started so far, each run whole, one after the
\* other in the order of dispatch: what the next one leaves
run_serial(serial, task, timestamp) ==
  Outcome(on_voice_state_update(
            State(serial.conns, serial.ids, serial.dirs, serial.files, FALSE),
            task.key[1], MemberName(task.key[1]), task.key[2],
            GuildName(task.key[2]), timestamp, task.before, task.after))

InitSched ==
  /\ now = 0
  /\ guilds = {1}
  /\ currently_tracked_connections = << >>
  /\ initialized_guilds_ids = {}
  /\ dirs = {}
  /\ files = << >>
  /\ blind_append = FALSE
  /\ handled = 0
  /\ last_transition = [k \in Keys |-> NoTransition]
  /\ main = MainRunning
  /\ loop = LoopIdle

\* the gateway delivers a voice-state notification: a task is created for
\* its handler; overlap records that an earlier task had not ended
Dispatch(k, before, after) ==
  /\ k[2] \in guilds
  /\ Len(loop.tasks) < MaxDelivered
  /\ loop' = [loop EXCEPT
                !.tasks = Append(@, [key |-> k, before |-> before, after |-> after,
                                     pc |-> "pending", t |-> 0]),
                !.overlap = @ \/ \E i \in 1..Len(loop.tasks) : loop.tasks[i].pc # "done"]
  /\ UNCHANGED <<now, guilds, currently_tracked_connections, initialized_guilds_ids,
                 dirs, files, blind_append, handled, last_transition, main>>

\* the loop may run task i: it waits at an await, or it is the first task
\* that has not started
Runnable(i) ==
  \/ loop.tasks[i].pc = "suspended"
  \/ /\ loop.tasks[i].pc = "pending"
     /\ \A j \in 1..(i - 1) : loop.tasks[j].pc # "pending"

\* the loop runs task i to its next await or to its end; a task that starts
\* reads time.time() = t
Step(i, t) ==
  /\ i \in 1..Len(loop.tasks)
  /\ Runnable(i)
  /\ \E task \in {loop.tasks[i]} :
     \E at \in {IF task.pc = "pending" THEN t ELSE task.t} :
     \E r \in {run_task(Current, task, at)} :
       /\ Effect(r.st, at)
       /\ loop' = [loop EXCEPT
                     !.tasks[i] = [task EXCEPT !.pc = r.pc, !.t = at],
                     !.serial = IF task.pc = "pending"
                                THEN run_serial(@, task, at) ELSE @]
       /\ last_transition' =
            IF task.before = task.after \/ r.pc # "done" THEN last_transition
            ELSE [last_transition EXCEPT ![task.key] =
                    [kind |-> TransitionKind(task.before, task.after), at |-> at,
                     before |-> task.before, after |-> task.after]]
  /\ UNCHANGED guilds

NextSched ==
  \/ \E k \in Keys, b, a \in Channels \cup {None} : Dispatch(k, b, a)
  \/ \E i \in 1..MaxDelivered, t \in Clock : Step(i, t)

SpecSched == InitSched /\ [][NextSched]_vars

\* ------------------------------------------------------- reading the files
EventLog(f, g) == RecordsOf(f, g, EVENT_LOG_FILENAME)
SessionLog(f, g) == RecordsOf(f, g, SESSION_LOG_FILENAME)
Journal(f, g) == Content(f, g, GUILD_EVENTS_FILENAME)
Snapshot(f, g) == Content(f, g, GUILD_METADATA_SNAPSHOT_FILENAME)

\* seq2 is seq1 followed by the lines of more
Extends(seq1, seq2, more) == seq2 = seq1 \o more

IsPrefix(seq1, seq2) ==
  Len(seq1) <= Len(seq2) /\ SubSeq(seq2, 1, Len(seq1)) = seq1

\* the EventRecord and the SessionRecord of the data model, as CSV rows
EventRecord(m, t, g, c, type) ==
  <<Str(m), MemberName(m), Str(t), Str(g), GuildName(g), Str(c), ChannelName(c), type>>

SessionRecord(m, start, duration, g, c, type) ==
  <<Str(m), MemberName(m), Str(start), Str(duration), Str(g), GuildName(g),
    Str(c), ChannelName(c), type>>

\* what the voice-state handler leaves when it runs now, in the current state
Voice(k, t, before, after) ==
  on_voice_state_update(Current, k[1], MemberName(k[1]), k[2], GuildName(k[2]),
                        t, before, after)

Tracked(k) == k \in DOMAIN currently_tracked_connections

\* ------------------------------------------------------------------ claims

\* C1: for every key, when the last transition the running process handled
\* for the key is a join at t1, a leave handled at t2 appends exactly one
\* SessionRecord, with start_time = t1, duration = t2 - t1 and type complete.
C1_JoinLeaveDuration ==
  \A k \in Keys :
    (k[2] \in guilds /\ last_transition[k].kind = "join") =>
      \A t2 \in Clock, b \in Channels :
        LET t1 == last_transition[k].at
            old == SessionLog(files, k[2])
            new == SessionLog(Voice(k, t2, b, None).files, k[2])
        IN  /\ Len(new) = Len(old) + 1
            /\ IsPrefix(old, new)
            /\ new[Len(new)][1] = Str(k[1])
            /\ new[Len(new)][3] = Str(t1)
            /\ new[Len(new)][4] = Str(t2 - t1)
            /\ new[Len(new)][5] = Str(k[2])
            /\ new[Len(new)][9] = COMPLETE

\* a join at 0 was followed by a leave at 1 for the same key
C1_Witness ==
  \E k \in Keys :
    /\ last_transition[k].kind = "leave"
    /\ last_transition[k].at = 1
    /\ \E c \in Channels :
         /\ EventLog(files, k[2]) = <<EventRecord(k[1], 0, k[2], c, JOIN),
                                      EventRecord(k[1], 1, k[2], c, LEAVE)>>
         /\ SessionLog(files, k[2]) = <<SessionRecord(k[1], 0, 1, k[2], c, COMPLETE)>>

\* C2: a leave, or the leave half of a channel switch, handled while the
\* tracker holds no entry for its key appends exactly one SessionRecord with
\* start_time = -1, duration = 0, type corrupted and the member, guild and
\* channel of the notification; the handler does not raise, and after a plain
\* leave the tracker still holds no entry for the key.
C2_UnmatchedLeaveCorrupted ==
  \A k \in Keys :
    (k[2] \in guilds /\ ~Tracked(k)) =>
      \A t \in Clock, b \in Channels : \A a \in (Channels \cup {None}) \ {b} :
        LET r == Voice(k, t, b, a)
        IN  /\ ~r.raised
            /\ Extends(SessionLog(files, k[2]), SessionLog(r.files, k[2]),
                       <<SessionRecord(k[1], -1, 0, k[2], b, CORRUPTED)>>)
            /\ a = None => k \notin DOMAIN r.conns

\* the join of the key was handled before a restart, the leave after it
C2_Witness ==
  \E k \in Keys, c \in Channels :
    /\ ~Tracked(k)
    /\ last_transition[k].kind = "leave"
    /\ EventLog(files, k[2]) = <<EventRecord(k[1], 0, k[2], c, JOIN),
                                 EventRecord(k[1], 1, k[2], c, LEAVE)>>
    /\ SessionLog(files, k[2]) = <<SessionRecord(k[1], -1, 0, k[2], c, CORRUPTED)>>

\* C3 as stated: a switch from A to B for a tracked key appends LEAVE of A and
\* JOIN of B with the same timestamp, and exactly one complete SessionRecord
\* that names the old channel A, with duration = timestamp - tracked start.
C3_SwitchNamesOldChannel ==
  [][\A k \in Keys, t \in Clock, b \in Channels :
       \A a \in Channels \ {b} :
         (Tracked(k) /\ OnVoiceStateUpdate(k[1], MemberName(k[1]), k[2], t, b, a)) =>
           LET start == currently_tracked_connections[k].timestamp
           IN  /\ Extends(EventLog(files, k[2]), EventLog(files', k[2]),
                          <<EventRecord(k[1], t, k[2], b, LEAVE),
                            EventRecord(k[1], t, k[2], a, JOIN)>>)
               /\ Extends(SessionLog(files, k[2]), SessionLog(files', k[2]),
                          <<SessionRecord(k[1], start, t - start, k[2], b, COMPLETE)>>)]_vars

\* C3 as amended: the SessionRecord names the channel of the tracked entry,
\* which is the old channel A whenever the entry was opened on A.
C3_SwitchClosesTrackedSession ==
  \A k \in Keys :
    (k[2] \in guilds /\ Tracked(k)) =>
      \A t \in Clock, b \in Channels : \A a \in Channels \ {b} :
        LET r == Voice(k, t, b, a)
            start == currently_tracked_connections[k].timestamp
            tracked == currently_tracked_connections[k].channel_id
        IN  /\ Extends(EventLog(files, k[2]), EventLog(r.files, k[2]),
                       <<EventRecord(k[1], t, k[2], b, LEAVE),
                         EventRecord(k[1], t, k[2], a, JOIN)>>)
            /\ Extends(SessionLog(files, k[2]), SessionLog(r.files, k[2]),
                       <<SessionRecord(k[1], start, t - start, k[2], tracked, COMPLETE)>>)
            /\ ~r.raised

\* the scenario of the specification: join A at 0, move to B at 1
C3_Witness ==
  \E k \in Keys :
    /\ last_transition[k].kind = "switch"
    /\ EventLog(files, k[2]) = <<EventRecord(k[1], 0, k[2], 1, JOIN),
                                 EventRecord(k[1], 1, k[2], 1, LEAVE),
                                 EventRecord(k[1], 1, k[2], 2, JOIN)>>
    /\ SessionLog(files, k[2]) = <<SessionRecord(k[1], 0, 1, k[2], 1, COMPLETE)>>

\* C4: after a switch from A to B at t has been handled for a key, tracked
\* before or not, the tracker holds one entry for the key, on channel B with
\* start_time t; no entry on A is left.
C4_SwitchTracksNewChannel ==
  \A k \in Keys :
    k[2] \in guilds =>
      \A t \in Clock, b \in Channels : \A a \in Channels \ {b} :
        LET r == Voice(k, t, b, a)
        IN  /\ k \in DOMAIN r.conns
            /\ r.conns[k].channel_id = a
            /\ r.conns[k].channel_name = ChannelName(a)
            /\ r.conns[k].timestamp = t
            /\ Cardinality({j \in DOMAIN r.conns : j = k}) = 1

\* a tracked key was moved from A to B at 1 and is tracked on B since 1
C4_Witness ==
  \E k \in Keys :
    /\ last_transition[k] = [kind |-> "switch", at |-> 1, before |-> 1, after |-> 2]
    /\ Len(EventLog(files, k[2])) = 3
    /\ Tracked(k)
    /\ currently_tracked_connections[k].channel_id = 2
    /\ currently_tracked_connections[k].timestamp = 1

\* ------------------------------------------------------------- bootstrap
CsvHeader(name) ==
  IF name = EVENT_LOG_FILENAME THEN EVENT_LOG_HEADER ELSE SESSION_LOG_HEADER

CsvFiles == {EVENT_LOG_FILENAME, SESSION_LOG_FILENAME}

\* the header is the first line of the file and no other line of it
HeaderOnce(f, g, name) ==
  LET lines == Content(f, g, name)
  IN  /\ Len(lines) >= 1
      /\ lines[1] = CsvHeader(name)
      /\ \A i \in 2..Len(lines) : lines[i] # CsvHeader(name)

\* C5: however often ensure_guild_files_exist is called for a guild, before,
\* between and after appends (and across restarts), every CSV log that exists
\* has its header exactly once, as its first line, and one more call leaves
\* every existing file as it is, creates a missing CSV log with the header
\* alone and a missing journal or snapshot empty, and a further call changes
\* nothing at all.
C5_EnsureIdempotent ==
  /\ \A g \in Guilds, name \in CsvFiles :
       <<g, name>> \in DOMAIN files => HeaderOnce(files, g, name)
  /\ \A g \in Guilds :
       LET r == ensure_guild_files_exist(Current, g)
       IN  /\ \A q \in DOMAIN files : q \in DOMAIN r.files /\ r.files[q] = files[q]
           /\ \A q \in DOMAIN r.files \ DOMAIN files :
                /\ q[1] = g
                /\ r.files[q] = IF q[2] \in CsvFiles THEN <<CsvHeader(q[2])>> ELSE << >>
           /\ FileSetExists(r, g)
           /\ ensure_guild_files_exist(r, g) = r

\* records were appended, the process restarted, and the guild was
\* bootstrapped again over the files that hold them
C5_Witness ==
  \E g \in Guilds :
    /\ g \in initialized_guilds_ids
    /\ \A k \in Keys : last_transition[k].kind = "none"
    /\ Len(EventLog(files, g)) >= 1
    /\ Len(SessionLog(files, g)) >= 1
    /\ Len(Journal(files, g)) >= 1

\* C6: whenever a line is appended to a file of a guild, the guild's
\* directory and its four files exist at that moment, in every order of
\* notifications.
C6_FileSetBeforeAppend == ~blind_append

\* both guilds are known, a voice notification of guild 1 was the first thing
\* handled: on_ready has not run (guild 2 has no directory)
C6_Witness ==
  /\ guilds = Guilds
  /\ dirs = {1}
  /\ handled = 1
  /\ Len(EventLog(files, 1)) = 1
  /\ Journal(files, 1) = << >>
  /\ FileSetExists(Current, 1)

\* --------------------------------------------------------- the recorders
\* the i-th of the seven recorder methods, called for guild g at time t
Recorder(st, i, g, t) ==
  CASE i = 1 -> log_guild_channel_add(st, t, g, 1, ChannelName(1), None, "voice")
    [] i = 2 -> log_guild_channel_remove(st, t, g, 1, ChannelName(1), 1, "voice")
    [] i = 3 -> log_guild_channel_rename(st, t, g, 1, "A", "B", None, "voice")
    [] i = 4 -> log_guild_member_join(st, t, g, 1, MemberName(1))
    [] i = 5 -> log_guild_member_remove(st, t, g, 1, MemberName(1))
    [] i = 6 -> log_guild_rename(st, t, g, "g1", "g2")
    [] OTHER -> log_guild_bot_join(st, t, g, GuildName(g))

\* C7: each call of one of the seven recorder methods appends exactly one
\* line to the journal of its guild, also when the same call was just made
\* (two calls add two lines); it appends no record to any event log or session
\* log, leaves every snapshot empty and changes no journal of another guild.
C7_OneJournalLinePerCall ==
  \A i \in 1..7, g \in Guilds, t \in Clock :
    LET r1 == Recorder(Current, i, g, t)
        r2 == Recorder(r1, i, g, t)
        old == Journal(files, g)
    IN  /\ Len(Journal(r1.files, g)) = Len(old) + 1
        /\ IsPrefix(old, Journal(r1.files, g))
        /\ Len(Journal(r2.files, g)) = Len(old) + 2
        /\ IsPrefix(Journal(r1.files, g), Journal(r2.files, g))
        /\ \A h \in Guilds :
             /\ EventLog(r2.files, h) = EventLog(files, h)
             /\ SessionLog(r2.files, h) = SessionLog(files, h)
             /\ Snapshot(r2.files, h) = << >>
             /\ h # g => Journal(r2.files, h) = Journal(files, h)

\* the same recorder call was made twice and the journal holds both lines
C7_Witness ==
  \E g \in Guilds :
    /\ Len(Journal(files, g)) = 2
    /\ Journal(files, g)[1] = Journal(files, g)[2]
    /\ EventLog(files, g) = << >>
    /\ SessionLog(files, g) = << >>

PayloadKeys(kind) ==
  CASE kind \in {CHANNEL_ADD, CHANNEL_REMOVE} ->
         {"channel_id", "channel_name", "channel_category_id", "channel_type"}
    [] kind = CHANNEL_RENAME ->
         {"channel_id", "channel_name_old", "channel_name_new",
          "channel_category_id", "channel_type"}
    [] kind \in {MEMBER_JOIN, MEMBER_REMOVE} -> {"member_id", "member_name"}
    [] kind = GUILD_RENAME -> {"guild_name_old", "guild_name_new"}
    [] OTHER -> {"guild_name"}

\* C8: every line of a guild's journal is an envelope with schema_version 1,
\* the id of the guild whose directory holds the journal, one of the seven
\* kinds as guild_event, and a payload with exactly the keys of that kind.
C8_JournalEnvelope ==
  \A g \in Guilds :
    \A i \in 1..Len(Journal(files, g)) :
      LET line == Journal(files, g)[i]
      IN  /\ DOMAIN line = {"schema_version", "timestamp", "guild_event", "guild_id", "payload"}
          /\ line.schema_version = 1
          /\ line.guild_id = g
          /\ line.guild_event \in GuildEvent
          /\ DOMAIN line.payload = PayloadKeys(line.guild_event)

\* a journal holds a channel_rename line and a member line
C8_Witness ==
  \E g \in Guilds :
    /\ Len(Journal(files, g)) = 2
    /\ Journal(files, g)[1].guild_event = CHANNEL_RENAME
    /\ Journal(files, g)[2].guild_event = MEMBER_REMOVE

\* ---------------------------------------------------------------- router
Bootstrapped(ids, d, f, g) ==
  g \in ids /\ g \in d /\ \A name \in FileNames : <<g, name>> \in DOMAIN f

\* C9 as stated: after on_ready and after on_guild_join every known guild is
\* bootstrapped (its four files exist and its id is memoized).
C9_EveryKnownGuildBootstrapped ==
  [][(OnReady \/ \E g \in Guilds, t \in Clock : OnGuildJoin(g, t)) =>
       \A h \in guilds' : Bootstrapped(initialized_guilds_ids', dirs', files', h)]_vars

\* C9 as amended: on_ready bootstraps every known guild; on_guild_join
\* bootstraps the guild that was joined, and appends exactly one
\* guild_join_bot line to its journal, with the file set in place.
C9_ReadyAndJoinBootstrap ==
  /\ LET r == on_ready(Current, guilds)
     IN  \A h \in guilds : Bootstrapped(r.ids, r.dirs, r.files, h)
  /\ \A g \in Guilds \ guilds, t \in Clock :
       LET r == on_guild_join(Current, t, g, GuildName(g))
           line == [schema_version |-> 1, timestamp |-> t,
                    guild_event |-> GUILD_JOIN_BOT, guild_id |-> g,
                    payload |-> [guild_name |-> GuildName(g)]]
       IN  /\ Bootstrapped(r.ids, r.dirs, r.files, g)
           /\ Extends(Journal(files, g), Journal(r.files, g), <<line>>)
           /\ ~r.blind
           /\ ~r.raised

\* guild 2 was joined and is bootstrapped, with its guild_join_bot line,
\* while the known guild 1 has no directory yet
C9_Witness ==
  /\ guilds = Guilds
  /\ initialized_guilds_ids = {2}
  /\ dirs = {2}
  /\ Len(Journal(files, 2)) = 1
  /\ Journal(files, 2)[1].guild_event = GUILD_JOIN_BOT
  /\ FileSetExists(Current, 2)

\* C10: the three logs are append-only over every step, bootstrap calls and
\* restarts included: a log file that exists keeps existing and its content
\* is a prefix of its content in the next state.
C10_AppendOnly ==
  [][\A q \in DOMAIN files :
       q[2] \in {EVENT_LOG_FILENAME, SESSION_LOG_FILENAME, GUILD_EVENTS_FILENAME} =>
         /\ q \in DOMAIN files'
         /\ IsPrefix(files[q], files'[q])]_vars

\* a record written before a restart is followed by one written after it
C10_Witness ==
  \E g \in Guilds, k \in Keys :
    /\ k[2] = g
    /\ Len(EventLog(files, g)) = 2
    /\ last_transition[k].kind # "none"
    /\ \A j \in Keys \ {k} : last_transition[j].kind = "none"
    /\ EventLog(files, g)[1][1] # Str(k[1])

\* ------------------------------------------------------------------ main()
\* main() has loaded the credentials, constructed the client or is about to
Starting(m) ==
  m.dotenv \/ m.client \/ m.pc \in {"load_dotenv", "construct", "run", "running"}

LastAnswer(m) == m.asked[Len(m.asked)]

\* C11: in production mode main() loads the credentials and constructs and
\* runs the client only after the answer 'y'; the answer 'n' exits with code 0
\* with no credentials loaded and no client; every other answer asks again
\* and starts nothing; in development mode, given or defaulted, nothing is
\* asked and nothing exits.
C11_ProdNeedsYes ==
  /\ (main.mode = "prod" /\ Starting(main)) =>
       (main.asked # << >> /\ LastAnswer(main) = "y")
  /\ main.pc = "exited" =>
       /\ main.exit = <<0>>
       /\ main.mode = "prod"
       /\ LastAnswer(main) = "n"
       /\ ~main.dotenv /\ ~main.client
  /\ main.exit # << >> => main.pc = "exited"
  /\ \A i \in 1..(Len(main.asked) - 1) : main.asked[i] \notin {"y", "n"}
  /\ (main.asked # << >> /\ LastAnswer(main) \notin {"y", "n"}) =>
       (main.pc = "input" /\ ~Starting(main))
  /\ main.mode = "dev" =>
       (main.asked = << >> /\ main.pc \notin {"input", "if_answer", "exited"})
  /\ main.pc = "parse_args" => ~Starting(main)

\* production mode: an answer that is neither 'y' nor 'n', then 'y', and the
\* client runs
C11_Witness ==
  /\ main.mode = "prod"
  /\ main.asked = <<"yes", "y">>
  /\ main.pc = "running"
  /\ main.client

\* ------------------------------------------------------- order of effects
\* the effect x comes before the effect y in the trace
Before(trace, x, y) ==
  \E i, j \in 1..Len(trace) : i < j /\ trace[i] = x /\ trace[j] = y

\* C12: in a channel switch of a tracked key the old entry is removed and the
\* SessionRecord is appended before the JOIN EventRecord is appended: LEAVE
\* record, close, JOIN record, open.
C12_CloseBeforeJoinRecord ==
  [][\A k \in Keys, t \in Clock, b \in Channels :
       \A a \in Channels \ {b} :
         (Tracked(k) /\ OnVoiceStateUpdate(k[1], MemberName(k[1]), k[2], t, b, a)) =>
           LET trace == Voice(k, t, b, a).trace
           IN  /\ Before(trace, LEAVE, "pop")
               /\ Before(trace, "pop", JOIN)
               /\ Before(trace, SESSION_LOG_FILENAME, JOIN)
               /\ Before(trace, JOIN, "track")]_vars

\* C13: the channel-updated handler never raises, whatever changed; a name
\* change appends exactly one channel_rename line; every line it appends has
\* one of the seven kinds.
C13_ChannelUpdateNeverRaises ==
  [][\A g \in Guilds, t \in Clock, c \in MetaChannels, n \in ChannelNames :
       \A c1 \in MetaCategories, c2 \in Categories :
         OnGuildChannelUpdate(g, t, c, n, c1, c2) =>
           LET r == on_guild_channel_update(Current, t, g, c, ChannelName(c), n,
                                            c1, c2, "voice")
               old == Journal(files, g)
               new == Journal(r.files, g)
           IN  /\ ~r.raised
               /\ IsPrefix(old, new)
               /\ \A i \in (Len(old) + 1)..Len(new) : new[i].guild_event \in GuildEvent
               /\ n # ChannelName(c) =>
                    (Len(new) = Len(old) + 1 /\ new[Len(new)].guild_event = CHANNEL_RENAME)]_vars

\* C14: a voice-state notification with the same channel before and after
\* (a channel, or none) leaves the tracker, the memo set, the directories and
\* every file as they are, performs no effect at all and does not raise.
C14_SameChannelNoOp ==
  \A k \in Keys, t \in Clock, c \in Channels \cup {None} :
    Voice(k, t, c, c) = Current

\* a member sits in a channel (tracked, records on file) and a notification
\* for the same channel on both sides is handled
C14_Witness ==
  \E k \in Keys :
    /\ Tracked(k)
    /\ Len(EventLog(files, k[2])) = 2
    /\ LET c == currently_tracked_connections[k].channel_id
       IN  /\ Voice(k, now, c, c).conns = currently_tracked_connections
           /\ Voice(k, now, c, c).files = files

\* ------------------------------------------------------------ the tracker
\* the connection handle_voice_join stores for key k on channel c at time t
Connection(k, t, c) ==
  [member_name |-> MemberName(k[1]), timestamp |-> t,
   guild_name |-> GuildName(k[2]), channel_name |-> ChannelName(c),
   channel_id |-> c]

\* C15: a join handled for a key that is tracked replaces the entry by one
\* with the new channel and the join's timestamp, appends exactly one JOIN
\* EventRecord and no SessionRecord to any session log; the leave that
\* follows appends one complete SessionRecord whose start is the second join
\* and whose duration is measured from it.
C15_JoinOverwritesStale ==
  \A k \in Keys :
    (k[2] \in guilds /\ Tracked(k)) =>
      \A t \in Clock, a \in Channels :
        LET r == Voice(k, t, None, a)
        IN  /\ ~r.raised
            /\ DOMAIN r.conns = DOMAIN currently_tracked_connections
            /\ r.conns[k] = Connection(k, t, a)
            /\ \A j \in DOMAIN r.conns \ {k} :
                 r.conns[j] = currently_tracked_connections[j]
            /\ Extends(EventLog(files, k[2]), EventLog(r.files, k[2]),
                       <<EventRecord(k[1], t, k[2], a, JOIN)>>)
            /\ \A h \in Guilds : SessionLog(r.files, h) = SessionLog(files, h)
            /\ \A t2 \in {t, t + 1}, b \in Channels :
                 LET r2 == on_voice_state_update(r, k[1], MemberName(k[1]), k[2],
                                                 GuildName(k[2]), t2, b, None)
                 IN  /\ Extends(SessionLog(r.files, k[2]), SessionLog(r2.files, k[2]),
                                <<SessionRecord(k[1], t, t2 - t, k[2], a, COMPLETE)>>)
                     /\ k \notin DOMAIN r2.conns

\* a key joined at 0 and, no leave handled, joined again at 1: two JOIN
\* records, no SessionRecord, the entry is the one of the second join
C15_Witness ==
  \E k \in Keys, c \in Channels :
    /\ Tracked(k)
    /\ currently_tracked_connections[k] = Connection(k, 1, c)
    /\ last_transition[k].kind = "join"
    /\ Len(EventLog(files, k[2])) = 2
    /\ EventLog(files, k[2])[1] = EventRecord(k[1], 0, k[2], 3 - c, JOIN)
    /\ EventLog(files, k[2])[2] = EventRecord(k[1], 1, k[2], c, JOIN)
    /\ SessionLog(files, k[2]) = << >>

\* ------------------------------------------------------ leaves and sessions
IsLeave(rec) == rec[8] = LEAVE

\* the LEAVE EventRecords of guild g, in file order
Leaves(f, g) == SelectSeq(EventLog(f, g), IsLeave)

\* how often the effect x occurs in the trace
Count(trace, x) == Cardinality({i \in 1..Len(trace) : trace[i] = x})

\* C16: in every guild the session log holds as many SessionRecords as the
\* event log holds LEAVE EventRecords, the k-th SessionRecord carries the
\* member_id and guild_id of the k-th LEAVE EventRecord, and a handler that
\* writes a LEAVE EventRecord writes exactly one SessionRecord, after it; a
\* join writes none.
C16_SessionPerLeave ==
  /\ \A g \in Guilds :
       LET leaves == Leaves(files, g)
           sessions == SessionLog(files, g)
       IN  /\ Len(sessions) = Len(leaves)
           /\ \A i \in 1..Len(sessions) :
                /\ sessions[i][1] = leaves[i][1]
                /\ sessions[i][5] = leaves[i][4]
                /\ sessions[i][5] = Str(g)
                /\ sessions[i][9] \in {COMPLETE, CORRUPTED}
  /\ \A k \in Keys, t \in Clock, b \in Channels \cup {None} :
       \A a \in (Channels \cup {None}) \ {b} :
         LET trace == Voice(k, t, b, a).trace
         IN  IF b = None
             THEN Count(trace, LEAVE) = 0 /\ Count(trace, SESSION_LOG_FILENAME) = 0
             ELSE /\ Count(trace, LEAVE) = 1
                  /\ Count(trace, SESSION_LOG_FILENAME) = 1
                  /\ Before(trace, LEAVE, SESSION_LOG_FILENAME)

\* two members left channels of guild 1: two LEAVE records and two
\* SessionRecords, in the same order of members
C16_Witness ==
  /\ Len(Leaves(files, 1)) = 2
  /\ Len(SessionLog(files, 1)) = 2
  /\ Leaves(files, 1)[1][1] # Leaves(files, 1)[2][1]
  /\ SessionLog(files, 1)[1][1] = Leaves(files, 1)[1][1]
  /\ SessionLog(files, 1)[2][1] = Leaves(files, 1)[2][1]

\* ---------------------------------------------------- captured identity
\* member.name and guild.name as the leave notification may carry them: the
\* names at join time, or new ones after a rename
LiveMemberNames(m) == {MemberName(m), "renamed"}
LiveGuildNames(g) == {GuildName(g), "renamed"}

\* the channel objects a leave notification may carry
LiveChannels == Channels \cup {Renamed}

LastOf(seq) == seq[Len(seq)]

\* C17 as stated: a complete SessionRecord is built from the tracked entry,
\* and when the notification's previous channel is the new channel of the
\* last transition handled for the key (no notification was lost), the
\* channel of the SessionRecord, id and name, is the channel of the LEAVE
\* EventRecord written with it.
C17_CompleteNamesLeaveChannel ==
  \A k \in Keys :
    (k[2] \in guilds /\ Tracked(k)) =>
      \A t \in Clock, b \in LiveChannels :
        LET r == Voice(k, t, b, None)
            session == LastOf(SessionLog(r.files, k[2]))
            leave == LastOf(Leaves(r.files, k[2]))
        IN  ChannelId(b) = last_transition[k].after =>
              (session[7] = leave[6] /\ session[8] = leave[7])

\* C17 as amended: a complete SessionRecord carries the member name, guild
\* name, channel id and channel name of the tracked entry, whatever names and
\* channel the leave notification carries; the tracked channel of a key is the
\* new channel of the last transition handled for it, so that whenever the
\* notification's previous channel is that channel (no notification was lost)
\* the record is complete and has the channel id of the LEAVE EventRecord
\* written with it.
C17_CompleteFromEntry ==
  \A k \in Keys :
    /\ Tracked(k) <=> last_transition[k].after # None
    /\ Tracked(k) => currently_tracked_connections[k].channel_id = last_transition[k].after
    /\ (k[2] \in guilds /\ Tracked(k)) =>
         \A t \in Clock, b \in LiveChannels :
           \A a \in {c \in Channels \cup {None} : c # ChannelId(b)} :
             \A name \in LiveMemberNames(k[1]), gname \in LiveGuildNames(k[2]) :
               LET e == currently_tracked_connections[k]
                   r == on_voice_state_update(Current, k[1], name, k[2], gname, t, b, a)
                   session == LastOf(SessionLog(r.files, k[2]))
                   leave == LastOf(Leaves(r.files, k[2]))
               IN  /\ Len(SessionLog(r.files, k[2])) = Len(SessionLog(files, k[2])) + 1
                   /\ session = <<Str(k[1]), e.member_name, Str(e.timestamp),
                                  Str(t - e.timestamp), Str(k[2]), e.guild_name,
                                  Str(e.channel_id), e.channel_name, COMPLETE>>
                   /\ leave[6] = Str(ChannelId(b))
                   /\ leave[7] = ChannelName(b)
                   /\ ChannelId(b) = last_transition[k].after => session[7] = leave[6]

\* a member joined channel A and the leave notification named channel B: the
\* LEAVE record names B, the complete SessionRecord names A
C17_Witness ==
  \E k \in Keys :
    /\ EventLog(files, k[2]) = <<EventRecord(k[1], 0, k[2], 1, JOIN),
                                 EventRecord(k[1], 1, k[2], 2, LEAVE)>>
    /\ SessionLog(files, k[2]) = <<SessionRecord(k[1], 0, 1, k[2], 1, COMPLETE)>>
    /\ ~Tracked(k)

\* ---------------------------------------------------- memo and bootstrap
\* the state st with the files gone of guild g deleted behind the program's
\* back, and the directory too when gone_dir
Lost(st, g, gone, gone_dir) ==
  [st EXCEPT !.files = [q \in {x \in DOMAIN st.files : ~(x[1] = g /\ x[2] \in gone)} |->
                          st.files[q]],
             !.dirs = IF gone_dir THEN @ \ {g} ELSE @]

\* C18: for a guild id in the memo set, ensure_guild_files_exist probes
\* nothing, creates nothing, writes nothing and leaves the memo set as it is,
\* whichever of the guild's files, or its directory, are missing.
C18_MemoizedEnsureNoOp ==
  \A g \in initialized_guilds_ids, gone \in SUBSET FileNames, gone_dir \in BOOLEAN :
    (gone_dir => gone = FileNames) =>
      LET d == Lost(Current, g, gone, gone_dir)
          r == ensure_guild_files_exist(d, g)
      IN  /\ r.trace = << >>
          /\ r.files = d.files
          /\ r.dirs = d.dirs
          /\ r.ids = initialized_guilds_ids
          /\ ~r.raised

\* two members of guild 1 joined a channel one after the other in the same
\* process: the second log_event found the guild id in the memo set
C18_Witness ==
  /\ 1 \in initialized_guilds_ids
  /\ last_transition[<<1, 1>>].kind = "join"
  /\ last_transition[<<2, 1>>].kind = "join"
  /\ Len(EventLog(files, 1)) = 2
  /\ ensure_guild_files_exist(Current, 1) = Current

\* the paths of guild g that do not exist
Missing(st, g) == {name \in FileNames : ~PathExists(st, g, name)}

\* the os.mkdir / open calls a bootstrap of guild g makes
BootOps(st, g) == (IF g \in st.dirs THEN 0 ELSE 1) + Cardinality(Missing(st, g))

\* what ensure_guild_files_exist writes into a file it creates
Fresh(name) == IF name \in CsvFiles THEN <<CsvHeader(name)>> ELSE << >>

\* C19: with the guild id not in the memo set (as after every restart, which
\* empties memo set and tracker and keeps the files), ensure_guild_files_exist
\* probes the directory and the four files, creates exactly the missing ones
\* (a CSV log with its header, journal and snapshot empty), leaves every
\* existing file as it is, header or no header, and memoizes the guild id.
C19_RestartReverifies ==
  \A g \in Guilds \ initialized_guilds_ids :
    LET r == ensure_guild_files_exist(Current, g)
    IN  /\ ~r.raised
        /\ r.ids = initialized_guilds_ids \cup {g}
        /\ r.dirs = dirs \cup {g}
        /\ Count(r.trace, "exists") = 1 + Cardinality(FileNames)
        /\ Count(r.trace, "mkdir") = (IF g \in dirs THEN 0 ELSE 1)
        /\ Count(r.trace, "create") = Cardinality(Missing(Current, g))
        /\ DOMAIN r.files = DOMAIN files \cup {<<g, name>> : name \in FileNames}
        /\ \A q \in DOMAIN files : r.files[q] = files[q]
        /\ \A q \in DOMAIN r.files \ DOMAIN files : r.files[q] = Fresh(q[2])

\* a bootstrap of guild 1 failed on the session log and left it empty; the
\* next one completed the file set, a JOIN was recorded, the process was
\* restarted and the guild bootstrapped again: the session log is still
\* empty, the event log still holds its header and the record
C19_Witness ==
  /\ initialized_guilds_ids = {1}
  /\ currently_tracked_connections = << >>
  /\ \A k \in Keys : last_transition[k].kind = "none"
  /\ FileSetExists(Current, 1)
  /\ Len(EventLog(files, 1)) = 1
  /\ Content(files, 1, EVENT_LOG_FILENAME)[1] = EVENT_LOG_HEADER
  /\ Content(files, 1, SESSION_LOG_FILENAME) = << >>

\* the three write paths of DataHandler, called for guild g at time t
Logger(st, i, g, t) ==
  CASE i = 1 -> log_event(st, 1, MemberName(1), t, g, GuildName(g), 1, ChannelName(1), JOIN)
    [] i = 2 -> log_session(st, 1, MemberName(1), -1, 0, g, GuildName(g), 1, ChannelName(1), CORRUPTED)
    [] OTHER -> log_guild_member_join(st, t, g, 1, MemberName(1))

\* the records of every log are the same in f1 and f2
SameRecords(f1, f2) ==
  \A h \in Guilds :
    /\ EventLog(f1, h) = EventLog(f2, h)
    /\ SessionLog(f1, h) = SessionLog(f2, h)
    /\ Journal(f1, h) = Journal(f2, h)

\* the three append-only logs of a guild
LogFiles == {EVENT_LOG_FILENAME, SESSION_LOG_FILENAME, GUILD_EVENTS_FILENAME}

\* line is a whole line of the file name: a CSV row with every column, a
\* journal object with the five keys of the envelope, its newline written
WholeLine(name, line) ==
  IF name = GUILD_EVENTS_FILENAME
  THEN DOMAIN line = {"schema_version", "timestamp", "guild_event", "guild_id", "payload"}
  ELSE Len(line) = Len(CsvHeader(name))

\* the whole records of a log, in file order
WholeRecords(f, g, name) ==
  SelectSeq(IF name = GUILD_EVENTS_FILENAME THEN Journal(f, g) ELSE RecordsOf(f, g, name),
            LAMBDA line : WholeLine(name, line))

\* f1 and f2 hold the same whole records in every log
SameWholeRecords(f1, f2) ==
  \A h \in Guilds, name \in LogFiles : WholeRecords(f1, h, name) = WholeRecords(f2, h, name)

\* C20: when os.mkdir or an open of the bootstrap raises, the log operation
\* that triggered the bootstrap raises, appends no record, and the guild id
\* is not memoized; the next log operation for the guild probes the file set
\* again and either appends its record, with the file set complete and the
\* id memoized, or raises again without appending a whole record; it succeeds
\* when the file system does not fail.
C20_BootstrapFailurePropagates ==
  \A g \in guilds \ initialized_guilds_ids, fault \in Faults, i \in 1..3 :
    (fault.fuel # NoFault /\ fault.fuel < BootOps(Current, g)) =>
      LET r == Logger(Faulty(Current, fault), i, g, now)
      IN  /\ r.raised
          /\ r.ids = initialized_guilds_ids
          /\ SameRecords(r.files, files)
          /\ \A q \in DOMAIN files : r.files[q] = files[q]
          /\ \A fault2 \in Faults :
               LET r2 == Logger(Faulty(r, fault2), i, g, now)
               IN  /\ Count(r2.trace, "exists") >= 1
                   /\ IF r2.raised
                      THEN SameWholeRecords(r2.files, r.files) /\ fault2.fuel # NoFault
                      ELSE /\ GuildRecords(r2.files, g) = GuildRecords(r.files, g) + 1
                           /\ g \in r2.ids
                           /\ FileSetExists(r2, g)
                   /\ fault2.fuel = NoFault => ~r2.raised

\* the bootstrap of guild 1 failed on the session log: the directory and the
\* event log exist, nothing else, no record was written and the guild id is
\* not memoized
C20_Witness ==
  /\ 1 \in guilds
  /\ 1 \notin initialized_guilds_ids
  /\ dirs = {1}
  /\ DOMAIN files = {<<1, EVENT_LOG_FILENAME>>}
  /\ files[<<1, EVENT_LOG_FILENAME>>] = <<EVENT_LOG_HEADER>>
  /\ handled = 0

\* C21: whatever append fails, and wherever it fails, every line of the event
\* log, the session log and the metadata journal is a whole line: no log
\* holds a part of a record or a record without its newline.
C21_WholeLineOrNothing ==
  \A g \in Guilds, name \in LogFiles :
    \A i \in 1..Len(Content(files, g, name)) :
      WholeLine(name, Content(files, g, name)[i])

\* C22: a handler task never waits between its first log write and its last
\* tracker update, the tasks end in the order of their dispatch, and whatever
\* notifications are pending and however the loop schedules them, the tracker
\* and the files are those left by the handlers run whole, one after the
\* other, in the order of dispatch.
C22_HandlersRunWhole ==
  /\ \A i \in 1..Len(loop.tasks) : loop.tasks[i].pc # "suspended"
  /\ \A i \in 1..Len(loop.tasks) :
       loop.tasks[i].pc = "done" => \A j \in 1..(i - 1) : loop.tasks[j].pc = "done"
  /\ Outcome(Current) = loop.serial

\* member 1 switched from A to B and left B in guild 1; the second
\* notification was dispatched while the first was pending; both handlers
\* have run: the session on B is closed as complete, nothing is tracked
C22_Witness ==
  /\ loop.overlap
  /\ Len(loop.tasks) = 2
  /\ \A i \in 1..2 : loop.tasks[i].pc = "done" /\ loop.tasks[i].key = <<1, 1>>
  /\ IsSwitch(loop.tasks[1].before, loop.tasks[1].after)
  /\ loop.tasks[2].before = loop.tasks[1].after
  /\ loop.tasks[2].after = None
  /\ ~Tracked(<<1, 1>>)
  /\ Len(SessionLog(files, 1)) = 2
  /\ LastOf(SessionLog(files, 1))[9] = COMPLETE

\* the whole EventRecords of key k in the event log of its guild, in file order
KeyEvents(f, k) ==
  SelectSeq(WholeRecords(f, k[2], EVENT_LOG_FILENAME), LAMBDA rec : rec[1] = Str(k[1]))

\* the whole EventRecords of key k that f2 holds after those of f1
NewEvents(f1, f2, k) ==
  SubSeq(KeyEvents(f2, k), Len(KeyEvents(f1, k)) + 1, Len(KeyEvents(f2, k)))

\* C23: whatever state a voice-state handler finds and however it ends, when
\* it has written no EventRecord for its key the key's tracker entry is as it
\* was, and when it has written one the key has an entry if and only if the
\* last EventRecord written is a JOIN, and the entry then carries the channel
\* and the timestamp of that record; a leave for a key without entry leaves
\* the tracker as it is.
C23_TrackerFollowsEventLog ==
  /\ \A k \in Keys, t \in Clock, fault \in Faults :
     \A before, after \in Channels \cup {None} :
       k[2] \in guilds =>
         LET r == on_voice_state_update(Faulty(Current, fault), k[1], MemberName(k[1]),
                                        k[2], GuildName(k[2]), t, before, after)
             written == NewEvents(files, r.files, k)
         IN  IF written = << >>
             THEN /\ (k \in DOMAIN r.conns) = Tracked(k)
                  /\ Tracked(k) => r.conns[k] = currently_tracked_connections[k]
             ELSE /\ (k \in DOMAIN r.conns) <=> LastOf(written)[8] = JOIN
                  /\ k \in DOMAIN r.conns =>
                       /\ Str(r.conns[k].channel_id) = LastOf(written)[6]
                       /\ r.conns[k].channel_name = LastOf(written)[7]
                       /\ Str(r.conns[k].timestamp) = LastOf(written)[3]
  /\ \A k \in Keys, t \in Clock, before \in Channels :
       (k[2] \in guilds /\ ~Tracked(k)) =>
         Voice(k, t, before, None).conns = currently_tracked_connections

\* C24: a voice-state notification for key (m, g) leaves the tracker entry of
\* every other key as it was (present or absent, and its value), and it
\* creates and changes files, directories and memo entries of guild g only.
C24_KeysIsolated ==
  \A k \in Keys, t \in Clock :
  \A before, after \in Channels \cup {None} :
    k[2] \in guilds =>
      LET r == Voice(k, t, before, after)
      IN  /\ DOMAIN r.conns \subseteq Keys
          /\ \A j \in Keys \ {k} :
               /\ (j \in DOMAIN r.conns) = Tracked(j)
               /\ Tracked(j) => r.conns[j] = currently_tracked_connections[j]
          /\ \A q \in DOMAIN files : q[1] # k[2] => r.files[q] = files[q]
          /\ \A q \in DOMAIN r.files \ DOMAIN files : q[1] = k[2]
          /\ r.dirs \ dirs \subseteq {k[2]}
          /\ r.ids \ initialized_guilds_ids \subseteq {k[2]}

\* member 1 joined channel A of guild 1, then a leave of the same member
\* arrived for guild 2: the entry of guild 1 is still there, guild 1 holds
\* its JOIN and no SessionRecord, guild 2 holds the corrupted SessionRecord
C24_Witness ==
  /\ DOMAIN currently_tracked_connections = {<<1, 1>>}
  /\ last_transition[<<1, 1>>].kind = "join"
  /\ last_transition[<<1, 2>>].kind = "leave"
  /\ Len(EventLog(files, 1)) = 1
  /\ SessionLog(files, 1) = << >>
  /\ Len(SessionLog(files, 2)) = 1
  /\ LastOf(SessionLog(files, 2))[9] = CORRUPTED

\* the EventRecords the handler of a transition from before to after writes
EventsDue(before, after) ==
  IF ChannelId(before) = ChannelId(after) THEN 0
  ELSE IF IsSwitch(before, after) THEN 2 ELSE 1

\* C25: in a join, a leave and a switch every EventRecord append comes before
\* every tracker update; when the handler raises before its last EventRecord
\* is appended, the tracker is as the handler found it; and every tracker
\* entry has its JOIN EventRecord, whole, in the event log of its guild.
C25_TrackerAfterEventLog ==
  /\ \A k \in Keys, t \in Clock, fault \in Faults :
     \A before, after \in Channels \cup {None} :
       k[2] \in guilds =>
         LET r == on_voice_state_update(Faulty(Current, fault), k[1], MemberName(k[1]),
                                        k[2], GuildName(k[2]), t, before, after)
             events == Count(r.trace, JOIN) + Count(r.trace, LEAVE)
         IN  /\ \A i, j \in 1..Len(r.trace) :
                  (r.trace[i] \in {JOIN, LEAVE} /\ r.trace[j] \in {"pop", "track"}) => i < j
             /\ (r.raised /\ events < EventsDue(before, after)) =>
                  /\ r.conns = currently_tracked_connections
                  /\ Count(r.trace, "pop") = 0
                  /\ Count(r.trace, "track") = 0
  /\ \A k \in DOMAIN currently_tracked_connections :
       LET entry == currently_tracked_connections[k]
           log == WholeRecords(files, k[2], EVENT_LOG_FILENAME)
       IN  \E i \in 1..Len(log) :
             log[i] = <<Str(k[1]), entry.member_name, Str(entry.timestamp), Str(k[2]),
                        entry.guild_name, Str(entry.channel_id), entry.channel_name, JOIN>>

\* guild 1 is bootstrapped and the append of an EventRecord raised midway:
\* the event log ends with the cut line, no session was recorded and the
\* tracker is empty, as it was
C25_Witness ==
  /\ initialized_guilds_ids = {1}
  /\ Len(Content(files, 1, EVENT_LOG_FILENAME)) = 2
  /\ Content(files, 1, EVENT_LOG_FILENAME)[1] = EVENT_LOG_HEADER
  /\ ~WholeLine(EVENT_LOG_FILENAME, Content(files, 1, EVENT_LOG_FILENAME)[2])
  /\ Content(files, 1, EVENT_LOG_FILENAME)[2][6] = Str(1)
  /\ Content(files, 1, SESSION_LOG_FILENAME) = <<SESSION_LOG_HEADER>>
  /\ currently_tracked_connections = << >>

====
